---- MODULE Spec2Model ----
(***************************************************************************)
(* The habit tracker component (HabitTracker.tsx) in its two variants: the *)
(* weeks-variant (weeks configurable in 1..12) and the days-variant (seven *)
(* fixed day columns).  State is the component's useState cells; every     *)
(* event handler is one action; the useMemo statistics are operators over  *)
(* the state, with number arithmetic carried out on IEEE-754 doubles.      *)
(***************************************************************************)
EXTENDS Integers, Sequences, FiniteSets

VARIABLES variant, weeks, habits, habitNames, checkedState

vars == <<variant, weeks, habits, habitNames, checkedState>>

(***************************************************************************)
(* Bounds of the exploration.                                              *)
(***************************************************************************)
\* handler inputs range over (0 - InputBelow) .. MaxInput
InputBelow == 1
MaxInput == 15
\* Spec renames the habits at indices below this bound
MaxRenameIndex == 4
\* SpecGrid toggles the first MaxToggleCells cells, counted row by row, of a
\* block ToggleWidth columns wide, with counts set from 1..MaxGridCount
ToggleWidth == 2
MaxToggleCells == 4
MaxGridCount == 3
\* isChecked is probed on the indices up to this bound and on those at and
\* past the largest grid
MaxProbe == 3

InputNums == (0 - InputBelow)..MaxInput
Names == {"Run"}

(***************************************************************************)
(* Program constants.                                                      *)
(***************************************************************************)
MinCount == 1
MaxHabits == 10
MaxWeeks == 12
DaysPerWeek == 7
InitWeeks == 4
InitHabits == 3
InitNames == <<"Exercise", "Read", "Meditate">>

Max(a, b) == IF a >= b THEN a ELSE b
Min(a, b) == IF a <= b THEN a ELSE b

(***************************************************************************)
(* Template literal `Habit ${n}`: decimal formatting of a positive number.  *)
(***************************************************************************)
Digit == <<"0", "1", "2", "3", "4", "5", "6", "7", "8", "9">>

RECURSIVE NumberToString(_)
NumberToString(n) ==
  IF n < 10 THEN Digit[n + 1]
  ELSE NumberToString(n \div 10) \o Digit[(n % 10) + 1]

HabitLabel(n) == "Habit " \o NumberToString(n)

(***************************************************************************)
(* IEEE-754 double arithmetic on positive numbers.  A double is a record   *)
(* [bits, exp]: bits is the significand, most significant bit first, with  *)
(* a leading 1 and at most Prec bits; its value is bits * 2^exp.  Zero has  *)
(* the empty significand.                                                  *)
(***************************************************************************)
Prec == 53

Zeros(n) == [i \in 1..n |-> 0]

RECURSIVE NatBits(_)
NatBits(n) == IF n = 0 THEN <<>> ELSE Append(NatBits(n \div 2), n % 2)

RECURSIVE BitsNat(_)
BitsNat(b) ==
  IF b = <<>> THEN 0 ELSE 2 * BitsNat(SubSeq(b, 1, Len(b) - 1)) + b[Len(b)]

\* the bit string without its leading zeros
StripZeros(b) ==
  IF \A i \in 1..Len(b) : b[i] = 0 THEN <<>>
  ELSE LET first == CHOOSE i \in 1..Len(b) :
                      b[i] = 1 /\ \A j \in 1..(i - 1) : b[j] = 0
       IN SubSeq(b, first, Len(b))

\* bit strings are added and divided ChunkBits bits at a time
ChunkBits == 16
ChunkBase == 65536

Chunk(q) == LET b == NatBits(q) IN Zeros(ChunkBits - Len(b)) \o b

\* a + b + carry on bit strings of one length, a multiple of ChunkBits
RECURSIVE AddChunks(_, _, _)
AddChunks(a, b, carry) ==
  IF a = <<>> THEN NatBits(carry)
  ELSE LET n == Len(a)
           lo == n - ChunkBits + 1
           s == BitsNat(SubSeq(a, lo, n)) + BitsNat(SubSeq(b, lo, n)) + carry
       IN AddChunks(SubSeq(a, 1, lo - 1), SubSeq(b, 1, lo - 1), s \div ChunkBase)
          \o Chunk(s % ChunkBase)

BitsAdd(a, b) ==
  LET n == ChunkBits * ((Max(Len(a), Len(b)) \div ChunkBits) + 1)
  IN StripZeros(AddChunks(Zeros(n - Len(a)) \o a, Zeros(n - Len(b)) \o b, 0))

RECURSIVE BitsMul(_, _)
BitsMul(a, b) ==
  IF b = <<>> THEN <<>>
  ELSE LET n == Len(b)
           twice == LET p == BitsMul(a, SubSeq(b, 1, n - 1))
                    IN IF p = <<>> THEN p ELSE Append(p, 0)
       IN IF b[n] = 1 THEN BitsAdd(twice, a) ELSE twice

\* round-to-nearest, ties-to-even, of bits * 2^exp (+ a nonzero tail if sticky)
RoundToDouble(bits, exp, sticky) ==
  IF Len(bits) <= Prec THEN [bits |-> bits, exp |-> exp]
  ELSE LET keep == SubSeq(bits, 1, Prec)
           guard == bits[Prec + 1]
           tail == sticky \/ \E i \in (Prec + 2)..Len(bits) : bits[i] = 1
           up == guard = 1 /\ (tail \/ keep[Prec] = 1)
           e == exp + (Len(bits) - Prec)
           inc == BitsAdd(keep, <<1>>)
       IN IF ~up THEN [bits |-> keep, exp |-> e]
          ELSE IF Len(inc) > Prec
               THEN [bits |-> SubSeq(inc, 1, Prec), exp |-> e + 1]
               ELSE [bits |-> inc, exp |-> e]

FromNat(n) == RoundToDouble(NatBits(n), 0, FALSE)

\* long division in base 2^ChunkBits: the first n digits of the fraction r / t
\* (r < t) and the remainder left after them
RECURSIVE LongDiv(_, _, _)
LongDiv(r, t, n) ==
  IF n = 0 THEN [q |-> <<>>, r |-> r]
  ELSE LET rest == LongDiv((r * ChunkBase) % t, t, n - 1)
       IN [q |-> Chunk((r * ChunkBase) \div t) \o rest.q, r |-> rest.r]

\* the double c / t for naturals c, t with t > 0
FDiv(c, t) ==
  IF c = 0 THEN [bits |-> <<>>, exp |-> 0]
  ELSE LET n == ((Prec + 1 + Len(NatBits(t))) \div ChunkBits) + 1
           d == LongDiv(c % t, t, n)
       IN RoundToDouble(StripZeros(NatBits(c \div t) \o d.q),
                        0 - n * ChunkBits, d.r # 0)

FMul(x, y) ==
  IF x.bits = <<>> \/ y.bits = <<>> THEN [bits |-> <<>>, exp |-> 0]
  ELSE RoundToDouble(BitsMul(x.bits, y.bits), x.exp + y.exp, FALSE)

\* Math.floor in place of Math.round
MathRound_Floor(x) ==
  LET whole == Len(x.bits) + x.exp
  IN IF x.bits = <<>> THEN 0
     ELSE IF x.exp >= 0 THEN BitsNat(x.bits \o Zeros(x.exp))
     ELSE IF whole >= 1 THEN BitsNat(SubSeq(x.bits, 1, whole)) ELSE 0

\* Math.round of a double x >= 0: the nearest integer, a half rounding up
MathRound(x) ==
  LET n == Len(x.bits)
      whole == n + x.exp
  IN IF x.bits = <<>> THEN 0
     ELSE IF x.exp >= 0 THEN BitsNat(x.bits \o Zeros(x.exp))
     ELSE (IF whole >= 1 THEN BitsNat(SubSeq(x.bits, 1, whole)) ELSE 0)
          + (IF whole >= 0 THEN x.bits[whole + 1] ELSE 0)

\* Math.round((completedCount / total) * 100)
Percent(completedCount, total) ==
  IF total > 0
  THEN MathRound(FMul(FDiv(completedCount, total), FromNat(100)))
  ELSE 0

\* Percent, tabulated once over the grid sizes the clamps admit
GridSizes == {h * w : h \in MinCount..MaxHabits, w \in MinCount..MaxWeeks}

PercentTable == [t \in GridSizes |-> [c \in 0..t |-> Percent(c, t)]]

(***************************************************************************)
(* Component state after mount.                                            *)
(***************************************************************************)
Init ==
  /\ variant \in {"weeks", "days"}
  /\ weeks = IF variant = "weeks" THEN InitWeeks ELSE DaysPerWeek
  /\ habits = InitHabits
  /\ habitNames = InitNames
  /\ checkedState = <<>>

(***************************************************************************)
(* Completion state: a sparse mapping habitIndex -> slotIndex -> boolean.  *)
(***************************************************************************)
\* the update without `...prev[habitIndex]`: the habit's row is replaced
ToggleCell_DropRow(prev, habitIndex, slotIndex, checked) ==
  [k \in (DOMAIN prev) \cup {habitIndex} |->
     IF k = habitIndex THEN [w \in {slotIndex} |-> checked] ELSE prev[k]]

\* the update storing the negation of the stored value instead of `checked`
ToggleCell_Flip(prev, habitIndex, slotIndex, checked) ==
  LET row == IF habitIndex \in DOMAIN prev THEN prev[habitIndex] ELSE <<>>
      old == IF slotIndex \in DOMAIN row THEN row[slotIndex] ELSE FALSE
      newRow == [k \in (DOMAIN row) \cup {slotIndex} |->
                   IF k = slotIndex THEN ~old ELSE row[k]]
  IN [k \in (DOMAIN prev) \cup {habitIndex} |->
        IF k = habitIndex THEN newRow ELSE prev[k]]

\* { ...prev, [habitIndex]: { ...prev[habitIndex], [slotIndex]: checked } }
ToggleCell(prev, habitIndex, slotIndex, checked) ==
  LET row == IF habitIndex \in DOMAIN prev THEN prev[habitIndex] ELSE <<>>
      newRow == [k \in (DOMAIN row) \cup {slotIndex} |->
                   IF k = slotIndex THEN checked ELSE row[k]]
  IN [k \in (DOMAIN prev) \cup {habitIndex} |->
        IF k = habitIndex THEN newRow ELSE prev[k]]

\* `state[habitIndex]?.[slotIndex] !== undefined`: an entry counts as set
IsCheckedIn_Defined(state, habitIndex, slotIndex) ==
  habitIndex \in DOMAIN state /\ slotIndex \in DOMAIN state[habitIndex]

\* state[habitIndex]?.[slotIndex] || false
IsCheckedIn(state, habitIndex, slotIndex) ==
  IF habitIndex \in DOMAIN state /\ slotIndex \in DOMAIN state[habitIndex]
  THEN state[habitIndex][slotIndex] \/ FALSE
  ELSE FALSE

isChecked(habitIndex, slotIndex) ==
  IsCheckedIn(checkedState, habitIndex, slotIndex)

\* the cells that have an entry in the mapping
StoredCells(state) == UNION {{h} \X DOMAIN state[h] : h \in DOMAIN state}

(***************************************************************************)
(* Derived statistics (useMemo) of a completion state and the two counts.  *)
(***************************************************************************)
\* the loops over h < habits, w < weeks with `<=` for `<` in the outer one
StatsOf_LoopInclusive(state, nh, nw) ==
  LET completedCount ==
        Cardinality({c \in (0..nh) \X (0..(nw - 1)) :
                       IsCheckedIn(state, c[1], c[2])})
      t == nh * nw
  IN [completed |-> completedCount,
      remaining |-> t - completedCount,
      percentage |-> Percent(completedCount, t)]

StatsOf(state, nh, nw) ==
  LET completedCount ==
        Cardinality({c \in (0..(nh - 1)) \X (0..(nw - 1)) :
                       IsCheckedIn(state, c[1], c[2])})
      t == nh * nw
  IN [completed |-> completedCount,
      remaining |-> t - completedCount,
      percentage |-> IF t \in GridSizes /\ completedCount \in 0..t
                     THEN PercentTable[t][completedCount]
                     ELSE Percent(completedCount, t)]

total == habits * weeks
completed == StatsOf(checkedState, habits, weeks).completed
remaining == StatsOf(checkedState, habits, weeks).remaining
percentage == StatsOf(checkedState, habits, weeks).percentage

(***************************************************************************)
(* Event handlers.                                                         *)
(***************************************************************************)
handleWeeksChange(value) ==
  /\ variant = "weeks"
  /\ weeks' = Max(MinCount, Min(MaxWeeks, value))
  /\ UNCHANGED <<variant, habits, habitNames, checkedState>>

\* without the upper clamp Math.min(10, value)
handleHabitsChange_NoClamp(value) ==
  LET newValue == Max(MinCount, value)
      length == Len(habitNames)
  IN /\ habits' = newValue
     /\ habitNames' =
          IF newValue > length
          THEN habitNames \o
               [i \in 1..(newValue - length) |-> HabitLabel(length + (i - 1) + 1)]
          ELSE habitNames
     /\ UNCHANGED <<variant, weeks, checkedState>>

\* one name too few appended: Array(newValue - habitNames.length - 1)
handleHabitsChange_OneShort(value) ==
  LET newValue == Max(MinCount, Min(MaxHabits, value))
      length == Len(habitNames)
  IN /\ habits' = newValue
     /\ habitNames' =
          IF newValue > length
          THEN habitNames \o
               [i \in 1..(newValue - length - 1) |->
                  HabitLabel(length + (i - 1) + 1)]
          ELSE habitNames
     /\ UNCHANGED <<variant, weeks, checkedState>>

\* the name list cut to the new count on a decrease
handleHabitsChange_Truncate(value) ==
  LET newValue == Max(MinCount, Min(MaxHabits, value))
      length == Len(habitNames)
  IN /\ habits' = newValue
     /\ habitNames' =
          IF newValue > length
          THEN habitNames \o
               [i \in 1..(newValue - length) |-> HabitLabel(length + (i - 1) + 1)]
          ELSE SubSeq(habitNames, 1, newValue)
     /\ UNCHANGED <<variant, weeks, checkedState>>

\* the rows of the dropped habits deleted from the completion state
handleHabitsChange_Purge(value) ==
  LET newValue == Max(MinCount, Min(MaxHabits, value))
      length == Len(habitNames)
  IN /\ habits' = newValue
     /\ habitNames' =
          IF newValue > length
          THEN habitNames \o
               [i \in 1..(newValue - length) |-> HabitLabel(length + (i - 1) + 1)]
          ELSE habitNames
     /\ checkedState' =
          [h \in {k \in DOMAIN checkedState : k < newValue} |-> checkedState[h]]
     /\ UNCHANGED <<variant, weeks>>

handleHabitsChange(value) ==
  LET newValue == Max(MinCount, Min(MaxHabits, value))
      length == Len(habitNames)
  IN /\ habits' = newValue
     /\ habitNames' =
          IF newValue > length
          THEN habitNames \o
               [i \in 1..(newValue - length) |-> HabitLabel(length + (i - 1) + 1)]
          ELSE habitNames
     /\ UNCHANGED <<variant, weeks, checkedState>>

\* the name input of row `index`; the table renders rows 0 .. habits - 1.
\* An assignment past the end of the array lengthens it, leaving holes.
handleHabitNameChange(index, name) ==
  /\ index \in 0..(habits - 1)
  /\ habitNames' =
       [i \in 1..Max(Len(habitNames), index + 1) |->
          IF i = index + 1 THEN name
          ELSE IF i <= Len(habitNames) THEN habitNames[i] ELSE "undefined"]
  /\ UNCHANGED <<variant, weeks, habits, checkedState>>

\* the checkbox of cell (habitIndex, slotIndex); the table renders the cells
\* of rows 0 .. habits - 1 and columns 0 .. weeks - 1
handleCheckChange(habitIndex, slotIndex, checked) ==
  /\ habitIndex \in 0..(habits - 1)
  /\ slotIndex \in 0..(weeks - 1)
  /\ checkedState' = ToggleCell(checkedState, habitIndex, slotIndex, checked)
  /\ UNCHANGED <<variant, weeks, habits, habitNames>>

(***************************************************************************)
(* Operations of the component, with their inputs drawn from given sets.   *)
(***************************************************************************)
SetHabitCount(inputs) == \E n \in inputs : handleHabitsChange(n)

SetWeekCount(inputs) == \E n \in inputs : handleWeeksChange(n)

RenameHabit(indices) ==
  \E i \in indices : \E name \in Names : handleHabitNameChange(i, name)

Toggle(cells, values) ==
  \E c \in cells : \E v \in values : handleCheckChange(c[1], c[2], v)

\* Spec: every count input and several renames, one checkbox
Next ==
  \/ SetHabitCount(InputNums)
  \/ SetWeekCount(InputNums)
  \/ RenameHabit(0..(MaxRenameIndex - 1))
  \/ Toggle({<<0, 0>>}, BOOLEAN)

Spec == Init /\ [][Next]_vars

\* SpecGrid: a block of checkboxes toggled freely, small counts
BlockCells ==
  {<<i \div ToggleWidth, i % ToggleWidth>> : i \in 0..(MaxToggleCells - 1)}

NextGrid ==
  \/ SetHabitCount(MinCount..MaxGridCount)
  \/ SetWeekCount(MinCount..MaxGridCount)
  \/ RenameHabit({0})
  \/ Toggle(BlockCells, BOOLEAN)

SpecGrid == Init /\ [][NextGrid]_vars

\* SpecFill: the checkboxes of the full grid ticked one after the other, row
\* by row, and the first one ticked and unticked freely, under every count
\* input
FillWidth == IF variant = "weeks" THEN MaxWeeks ELSE DaysPerWeek

FillCell ==
  LET k == Cardinality(StoredCells(checkedState))
  IN <<k \div FillWidth, k % FillWidth>>

NextFill ==
  \/ SetHabitCount(InputNums)
  \/ SetWeekCount(InputNums)
  \/ RenameHabit({0})
  \/ Toggle({FillCell}, {TRUE})
  \/ Toggle({<<0, 0>>}, BOOLEAN)

SpecFill == Init /\ [][NextFill]_vars

(***************************************************************************)
(* Properties.                                                             *)
(***************************************************************************)
\* the entries of the mapping that hold true
TrueCells == {c \in StoredCells(checkedState) : checkedState[c[1]][c[2]]}

\* the entries that hold true and lie inside the current grid
ShownTrueCells == {c \in TrueCells : c[1] < habits /\ c[2] < weeks}

\* C1: in every reachable state completed + remaining = habits * timeSlots,
\* completed being the number of cells (h, t) with 0 <= h < habits and
\* 0 <= t < timeSlots that are set to true.
C1_CompletedPlusRemaining ==
  /\ completed + remaining = habits * weeks
  /\ completed = Cardinality(ShownTrueCells)

\* C1 witness: cells were set and one unset again, the counts were changed,
\* and part of the grid is set while a set cell lies outside it
C1_Witness ==
  /\ completed >= 2
  /\ StoredCells(checkedState) # TrueCells
  /\ remaining >= 1
  /\ habits * weeks # InitHabits * InitWeeks
  /\ TrueCells # ShownTrueCells

\* round(n / d * 100) on the rationals, a half rounding up
RoundedPercent(n, d) == (200 * n + d) \div (2 * d)

\* C2: in every reachable state percentage = round(completed / total * 100)
\* with total = habits * timeSlots when total > 0 (a half rounds up) and 0
\* when total = 0; the initial weeks-variant state gives 0 / 12 / 0, two set
\* cells of 12 give 2 / 10 / 17, and 7 set cells of 21 in the days-variant
\* give 33.
C2_PercentageIsRounded ==
  /\ percentage = IF habits * weeks > 0
                  THEN RoundedPercent(completed, habits * weeks)
                  ELSE 0
  /\ (variant = "weeks" /\ habits = 3 /\ weeks = 4 /\ TrueCells = {})
       => (completed = 0 /\ remaining = 12 /\ percentage = 0)
  /\ (variant = "weeks" /\ habits = 3 /\ weeks = 4 /\ completed = 2)
       => (remaining = 10 /\ percentage = 17)
  /\ (variant = "days" /\ habits = 3 /\ completed = 7) => percentage = 33

\* C10: in every reachable state 0 <= completed <= habits * timeSlots and
\* 0 <= percentage <= 100; percentage is 100 only if no cell of the grid is
\* left unset, and 0 only if no cell of the grid is set.
C10_PercentageExtremes ==
  /\ 0 <= completed /\ completed <= habits * weeks
  /\ 0 <= percentage /\ percentage <= 100
  /\ percentage = 100 => remaining = 0
  /\ percentage = 0 => completed = 0

\* C10 witness: the largest grid with a single cell left unset
C10_Witness ==
  /\ habits * weeks = MaxHabits * MaxWeeks
  /\ remaining = 1
  /\ percentage = 99

\* v clamped to lo .. hi
Clamped(v, lo, hi) == IF v < lo THEN lo ELSE IF v > hi THEN hi ELSE v

\* C3: setHabitCount(n) leaves the habit count at n clamped to [1, 10] and
\* setWeekCount(n) leaves the week count at n clamped to [1, 12]; in every
\* reachable state the habit count is in [1, 10] and the week count in [1, 12].
C3_CountsClamped ==
  /\ [](habits \in 1..10 /\ weeks \in 1..12)
  /\ [][\A n \in InputNums :
          /\ handleHabitsChange(n) => habits' = Clamped(n, 1, 10)
          /\ handleWeeksChange(n) => weeks' = Clamped(n, 1, 12)]_vars

\* C3 witness: both counts were set, one to each end of its range
C3_Witness == habits = 10 /\ weeks = 1

\* C4: in every reachable state the name list is at least as long as the
\* habit count.
C4_NamesCoverHabits == Len(habitNames) >= habits

\* C4 witness: the habit count was raised above the initial names and then
\* lowered, after a rename
C4_Witness ==
  /\ habits > Len(InitNames)
  /\ Len(habitNames) > habits
  /\ habitNames[1] \in Names

\* the names `Habit k` as the document gives them
DefaultName ==
  <<"Habit 1", "Habit 2", "Habit 3", "Habit 4", "Habit 5",
    "Habit 6", "Habit 7", "Habit 8", "Habit 9", "Habit 10">>

\* C5: setHabitCount(n), m being n clamped and L the length of the name
\* list: if m <= L the list is unchanged; if m > L the new list is the old one
\* followed by "Habit k" for k = L + 1 .. m, every name kept at its index.
C5_NamesGrowOnly ==
  [][\A n \in InputNums :
       handleHabitsChange(n) =>
         LET m == Clamped(n, 1, 10)
             L == Len(habitNames)
         IN IF m <= L
            THEN habitNames' = habitNames
            ELSE /\ Len(habitNames') = m
                 /\ \A i \in 1..L : habitNames'[i] = habitNames[i]
                 /\ \A k \in (L + 1)..m : habitNames'[k] = DefaultName[k]]_vars

\* C5 witness: the habit count raised from 3 to 6 and back to 3, a renamed
\* habit and an original name still in place
C5_Witness ==
  /\ habits = 3
  /\ Len(habitNames) = 6
  /\ habitNames[1] \in Names
  /\ habitNames[2] = "Read"
  /\ habitNames[6] = "Habit 6"

\* the indices isChecked is probed on: the small ones and those at and past
\* the largest grid
ProbeIndices == (0..MaxProbe) \cup {MaxHabits, MaxWeeks, MaxWeeks + 1}
ProbeCells == ProbeIndices \X ProbeIndices

\* C6: toggle(h, t, v) overwrites one cell: afterwards isSet(h, t) = v, every
\* other cell reads as before, and the counts and the names are unchanged.
C6_ToggleOverwritesOneCell ==
  [][\A c \in ProbeCells : \A v \in BOOLEAN :
       handleCheckChange(c[1], c[2], v) =>
         /\ IsCheckedIn(checkedState', c[1], c[2]) = v
         /\ \A d \in ProbeCells \ {c} :
              IsCheckedIn(checkedState', d[1], d[2]) = isChecked(d[1], d[2])
         /\ habits' = habits /\ weeks' = weeks /\ habitNames' = habitNames]_vars

\* C6 witness: two time slots of one habit toggled to different values
C6_Witness ==
  /\ {<<0, 0>>, <<0, 1>>} \subseteq StoredCells(checkedState)
  /\ checkedState[0][0] /\ ~checkedState[0][1]

\* C7: applying toggle(h, t, v) a second time yields the completion state and
\* the derived stats of applying it once.
C7_ToggleIdempotent ==
  \A c \in ProbeCells : \A v \in BOOLEAN :
    LET once == ToggleCell(checkedState, c[1], c[2], v)
        twice == ToggleCell(once, c[1], c[2], v)
    IN /\ twice = once
       /\ StatsOf(twice, habits, weeks) = StatsOf(once, habits, weeks)

\* C7 witness: cells toggled to true and to false, so that a toggle meets a
\* stored true, a stored false and no entry
C7_Witness ==
  /\ TrueCells # {}
  /\ StoredCells(checkedState) \ TrueCells # {}
  /\ BlockCells \ StoredCells(checkedState) # {}

\* C8: isSet(h, t) is defined for every pair of indices, also those outside
\* the grid and habits without a mapping: it is the stored boolean if the cell
\* has an entry and false otherwise; a cell without an entry is not told apart
\* from one toggled to false.
C8_IsSetTotal ==
  /\ \A c \in ProbeCells :
       /\ isChecked(c[1], c[2]) \in BOOLEAN
       /\ isChecked(c[1], c[2]) = (c \in TrueCells)
  /\ \A c \in ProbeCells \ StoredCells(checkedState) :
       LET unset == ToggleCell(checkedState, c[1], c[2], FALSE)
       IN /\ \A d \in ProbeCells :
               IsCheckedIn(unset, d[1], d[2]) = isChecked(d[1], d[2])
          /\ StatsOf(unset, habits, weeks) = StatsOf(checkedState, habits, weeks)

\* C8 witness: a habit with entries, one of them false, beside a habit of the
\* grid that has no mapping
C8_Witness ==
  /\ 0 \in DOMAIN checkedState
  /\ 1 \notin DOMAIN checkedState
  /\ habits > 1
  /\ StoredCells(checkedState) \ TrueCells # {}
  /\ TrueCells # {}

\* C9: setHabitCount and setWeekCount never modify the completion mapping: a
\* cell set to true stays set while a lower count hides it, is not counted
\* in completed while hidden, and is counted again once the count shows it.
C9_EntriesSurviveShrink ==
  /\ [][(habits' # habits \/ weeks' # weeks) => checkedState' = checkedState]_vars
  /\ [](completed = Cardinality(ShownTrueCells))

\* C9 witness: a cell set to true lies outside the current grid and is not
\* counted
C9_Witness ==
  /\ \E c \in TrueCells : c[1] >= habits
  /\ \E c \in TrueCells : c[2] >= weeks
  /\ completed < Cardinality(TrueCells)

====
